---------------------------- MODULE Spec2Model ----------------------------
(***************************************************************************)
(* Model of the P5 proxy generator (src/p5_proxy_generator.py together     *)
(* with the paths of src/aw_platform.py).                                  *)
(*                                                                         *)
(* Paths and file names are sequences of tokens.  The characters on which  *)
(* the code's string operations branch are tokens of their own:            *)
(*     "/"   the POSIX separator (os.sep)                                  *)
(*     "\\"  the backslash of the marker pattern's class [/\\]             *)
(*     "."   the extension dot                                             *)
(*     "_"   the underscore of the "_proxy", "_preview", "_workflow" and   *)
(*           "proxy_dummy_" affixes                                        *)
(*     "{" "}"  the Tcl braces P5 puts around AWPST_SRV_HOME              *)
(* and every maximal run of other characters is one opaque token, so       *)
(* "/R/A001.mov" is <<"/", "R", "/", "A001", ".", "mov">> and "" is << >>. *)
(* Every concatenation the code makes has one of the special tokens        *)
(* at the seam, so token sequences stay in this canonical form and are     *)
(* equal exactly when the strings are.  POSIX flavour (posixpath,          *)
(* PurePosixPath) throughout.                                              *)
(***************************************************************************)
EXTENDS Integers, Sequences, FiniteSets, TLC

VARIABLES
    config,               \* the module-level configuration constants (lines 45-123)
    env,                  \* what aw_platform.py finds when it is imported: the
                          \* AWPST_SRV_HOME variable, whether AW_PATH/temp is a
                          \* directory, the system's temporary directory, and
                          \* whether the transcoder AW_BIN/ffmpeg can be started
    fs,                   \* the regular files that exist, by path (the sources
                          \* named on the command lines, what earlier runs left
                          \* in the temp area, and what the runs write)
    pc,                   \* pc[r]: position of run r inside main()
    argv,                 \* argv[r]: sys.argv of run r
    input_file,           \* main's local input_file
    preview_proxy_path,   \* main's local preview_proxy_path
    workflow_proxy_path,  \* main's local workflow_proxy_path
    workflow_dest,        \* main's local workflow_dest ("" until computed)
    return_path,          \* main's local return_path
    child,                \* child[r]: the transcoder process run r waits for in
                          \* subprocess.run, by the way it is going to end, or
                          \* "none"
    calls,                \* generate_proxy calls of run r that have ended, in
                          \* order, each with its tier, its output_file and how
                          \* it ended: ok (returned True), or not, by returning
                          \* False or by raising
    copies,               \* shutil.copy2 calls completed by run r, in order
    created,              \* paths run r had a transcoder write in the temp area
    removed,              \* paths run r deleted with os.remove
    stdout,               \* lines run r printed to standard output
    exit_code             \* exit status of run r: << >> while it runs, then <<0>> or <<1>>

vars == <<config, env, fs, pc, argv, input_file, preview_proxy_path,
          workflow_proxy_path, workflow_dest, return_path, child, calls,
          copies, created, removed, stdout, exit_code>>

-----------------------------------------------------------------------------
(* Bounds of the model.                                                    *)

\* WORKFLOW_REMOVE_LEVELS ranges over 0..MaxRemoveLevels
MaxRemoveLevels == 2

-----------------------------------------------------------------------------
(* String helpers.                                                         *)

EmptyStr == << >>

StartsWith(s, pre) ==
    Len(s) >= Len(pre) /\ SubSeq(s, 1, Len(pre)) = pre

EndsWith(s, suf) ==
    Len(s) >= Len(suf) /\ SubSeq(s, Len(s) - Len(suf) + 1, Len(s)) = suf

\* str.rfind(t) + 1: the 1-based index of the last t in s, 0 when there is none
RFind(s, t) ==
    LET hits == {i \in 1..Len(s) : s[i] = t}
    IN  IF hits = {} THEN 0 ELSE CHOOSE i \in hits : \A j \in hits : j <= i

\* str.rstrip('/')
RStripSep(s) ==
    LET keep == {i \in 1..Len(s) : s[i] # "/"}
    IN  IF keep = {} THEN EmptyStr
        ELSE SubSeq(s, 1, CHOOSE i \in keep : \A j \in keep : j <= i)

\* str.split('/'): the components between separators, empty ones included
RECURSIVE Split(_)
Split(s) ==
    LET seps == {i \in 1..Len(s) : s[i] = "/"}
    IN  IF seps = {} THEN <<s>>
        ELSE LET i == CHOOSE k \in seps : \A j \in seps : k <= j
             IN  <<SubSeq(s, 1, i - 1)>> \o Split(SubSeq(s, i + 1, Len(s)))

\* '/'.join(comps)
RECURSIVE JoinSep(_)
JoinSep(comps) ==
    IF comps = << >> THEN EmptyStr
    ELSE IF Len(comps) = 1 THEN comps[1]
    ELSE comps[1] \o <<"/">> \o JoinSep(Tail(comps))

-----------------------------------------------------------------------------
(* posixpath and pathlib.                                                  *)

\* os.path.dirname
dirname(p) ==
    LET i    == RFind(p, "/")
        head == SubSeq(p, 1, i)
    IN  IF head # EmptyStr /\ RStripSep(head) # EmptyStr
        THEN RStripSep(head)
        ELSE head

\* os.path.join(a, b)
join(a, b) ==
    IF StartsWith(b, <<"/">>) THEN b
    ELSE IF a = EmptyStr \/ EndsWith(a, <<"/">>) THEN a \o b
    ELSE a \o <<"/">> \o b

\* os.path.join(a, b, c)
join3(a, b, c) == join(join(a, b), c)

\* the component loop of os.path.normpath
RECURSIVE NormComps(_, _, _)
NormComps(comps, new_comps, initial_slashes) ==
    IF comps = << >> THEN new_comps
    ELSE LET comp == Head(comps)
             rest == Tail(comps)
         IN  IF comp = EmptyStr \/ comp = <<".">>
             THEN NormComps(rest, new_comps, initial_slashes)
             ELSE IF \/ comp # <<".", ".">>
                     \/ (initial_slashes = 0 /\ new_comps = << >>)
                     \/ (new_comps # << >> /\ new_comps[Len(new_comps)] = <<".", ".">>)
             THEN NormComps(rest, Append(new_comps, comp), initial_slashes)
             ELSE IF new_comps # << >>
             THEN NormComps(rest, SubSeq(new_comps, 1, Len(new_comps) - 1), initial_slashes)
             ELSE NormComps(rest, new_comps, initial_slashes)

\* os.path.normpath
normpath(path) ==
    IF path = EmptyStr THEN <<".">>
    ELSE LET initial_slashes ==
                 IF ~StartsWith(path, <<"/">>) THEN 0
                 ELSE IF StartsWith(path, <<"/", "/">>) /\ ~StartsWith(path, <<"/", "/", "/">>)
                 THEN 2 ELSE 1
             comps  == NormComps(Split(path), << >>, initial_slashes)
             joined == JoinSep(comps)
             full   == IF initial_slashes = 2 THEN <<"/", "/">> \o joined
                       ELSE IF initial_slashes = 1 THEN <<"/">> \o joined
                       ELSE joined
         IN  IF full = EmptyStr THEN <<".">> ELSE full

\* PurePosixPath(p).name: the last component that is neither empty nor "."
PathName(p) ==
    LET comps == Split(p)
        keep  == {i \in 1..Len(comps) : comps[i] # EmptyStr /\ comps[i] # <<".">>}
    IN  IF keep = {} THEN EmptyStr
        ELSE comps[CHOOSE i \in keep : \A j \in keep : j <= i]

\* PurePosixPath(p).stem: the name up to its last dot, when that dot is
\* neither the first nor the last character of the name
PathStem(p) ==
    LET name == PathName(p)
        i    == RFind(name, ".")
    IN  IF 1 < i /\ i < Len(name) THEN SubSeq(name, 1, i - 1) ELSE name

-----------------------------------------------------------------------------
(* Platform constants of aw_platform.py and the names main() builds.       *)

\* _normalize_path(path) off Windows: drop Tcl braces, then normpath
normalize_path(path) ==
    LET inner == IF StartsWith(path, <<"{">>) /\ EndsWith(path, <<"}">>)
                 THEN SubSeq(path, 2, Len(path) - 1) ELSE path
    IN  normpath(inner)

\* AW_PATH: the P5 installation directory, from AWPST_SRV_HOME when that
\* is set and non-empty, else '/usr/local/aw' (macOS and Linux)
AW_PATH ==
    IF env.AWPST_SRV_HOME # EmptyStr
    THEN normalize_path(env.AWPST_SRV_HOME)
    ELSE <<"/", "usr", "/", "local", "/", "aw">>

\* AW_TEMP = os.path.join(AW_PATH, 'temp'), or tempfile.gettempdir() when
\* that is not a directory.  Either way AW_TEMP is an existing directory.
AW_TEMP ==
    IF env.temp_isdir THEN join(AW_PATH, <<"temp">>) ELSE env.gettempdir

Runs == {1, 2}

\* os.getpid(): concurrent processes have distinct pids
getpid(r) == IF r = 1 THEN <<"4711">> ELSE <<"4712">>

-----------------------------------------------------------------------------
(* get_container and build_workflow_path.                                  *)

\* get_container(codec, custom)
get_container(codec, custom) ==
    IF custom # EmptyStr THEN custom
    ELSE IF codec = "h264" THEN <<"mp4">>
    ELSE IF codec = "prores" THEN <<"mov">>
    ELSE IF codec = "dnxhd" THEN <<"mxf">>
    ELSE <<"mp4">>

\* the character class [/\\] of the marker pattern
IsPatternSep(t) == t \in {"/", "\\"}

\* pattern.search(s) for [/\\]<marker>[/\\]: the 1-based start of the
\* leftmost match, 0 when there is none
MarkerSearch(s, marker) ==
    LET n    == Len(marker)
        hits == {i \in 1..Len(s) :
                    /\ i + n + 1 <= Len(s)
                    /\ IsPatternSep(s[i])
                    /\ SubSeq(s, i + 1, i + n) = marker
                    /\ IsPatternSep(s[i + n + 1])}
    IN  IF hits = {} THEN 0 ELSE CHOOSE i \in hits : \A j \in hits : i <= j

\* Step 1 of build_workflow_path: replace the base path if configured
SubstituteBase(src_dir) ==
    LET marker   == config.WORKFLOW_PROJECT_FOLDER
        new_base == config.WORKFLOW_NEW_BASE
        m        == MarkerSearch(src_dir, marker)
    IN  IF marker # EmptyStr /\ new_base # EmptyStr
        THEN IF m # 0
             THEN join3(new_base, marker,
                        SubSeq(src_dir, m + Len(marker) + 2, Len(src_dir)))
             ELSE IF EndsWith(src_dir, <<"/">> \o marker)
             THEN join(new_base, marker)
             ELSE src_dir
        ELSE src_dir

\* Step 2 of build_workflow_path: os.path.dirname applied n times
RECURSIVE RemoveLevels(_, _)
RemoveLevels(dir, n) ==
    IF n = 0 THEN dir ELSE RemoveLevels(dirname(dir), n - 1)

\* Step 3 of build_workflow_path: append the replacement folder
AppendFolder(target_dir) ==
    IF config.WORKFLOW_REPLACE_WITH # EmptyStr
    THEN join(target_dir, config.WORKFLOW_REPLACE_WITH)
    ELSE target_dir

\* target_dir of build_workflow_path after steps 1 to 3
TargetDir(src_file) ==
    AppendFolder(RemoveLevels(SubstituteBase(dirname(src_file)),
                              config.WORKFLOW_REMOVE_LEVELS))

\* the directory test without normalization
SameDirAsSource_raw(target_dir, original_dir) ==
    target_dir = original_dir

\* the test that decides the _proxy suffix
SameDirAsSource(target_dir, original_dir) ==
    normpath(target_dir) = normpath(original_dir)

\* output_basename that never gets the suffix
OutputBasename_plain(src_file) ==
    PathStem(src_file)

\* output_basename of build_workflow_path
OutputBasename(src_file) ==
    IF SameDirAsSource(TargetDir(src_file), dirname(src_file))
    THEN PathStem(src_file) \o <<"_", "proxy">>
    ELSE PathStem(src_file)

\* build_workflow_path(src_file, container)
build_workflow_path(src_file, container) ==
    join(TargetDir(src_file), OutputBasename(src_file) \o <<".">> \o container)

-----------------------------------------------------------------------------
(* main(): the locals derived from the configuration.                      *)

\* need_preview with the quality sources ignored: any enabled output asks
\* for the preview tier
need_preview_any_enabled ==
    config.ENABLE_P5_PREVIEW \/ config.ENABLE_WORKFLOW_STORE

\* need_preview with the P5 preview's clause dropped
need_preview_store_only ==
    config.ENABLE_WORKFLOW_STORE /\ config.WORKFLOW_STORE_SOURCE = "preview"

\* need_preview (lines 330-331)
need_preview ==
    \/ (config.ENABLE_P5_PREVIEW /\ config.P5_PREVIEW_SOURCE = "preview")
    \/ (config.ENABLE_WORKFLOW_STORE /\ config.WORKFLOW_STORE_SOURCE = "preview")

\* need_workflow with the workflow store's clause dropped
need_workflow_preview_only ==
    config.ENABLE_P5_PREVIEW /\ config.P5_PREVIEW_SOURCE = "workflow"

\* need_workflow (lines 332-333)
need_workflow ==
    \/ (config.ENABLE_P5_PREVIEW /\ config.P5_PREVIEW_SOURCE = "workflow")
    \/ (config.ENABLE_WORKFLOW_STORE /\ config.WORKFLOW_STORE_SOURCE = "workflow")

\* os.path.join(aw.AW_TEMP, f"{basename}_preview.{ext}")
PreviewTempPath(file) ==
    join(AW_TEMP, PathStem(file) \o <<"_", "preview", ".">>
                  \o get_container(config.PREVIEW_CODEC, config.PREVIEW_CONTAINER))

\* os.path.join(aw.AW_TEMP, f"{basename}_workflow.{ext}")
WorkflowTempPath(file) ==
    join(AW_TEMP, PathStem(file) \o <<"_", "workflow", ".">>
                  \o get_container(config.WORKFLOW_CODEC, config.WORKFLOW_CONTAINER))

\* os.path.join(aw.AW_TEMP, f"proxy_dummy_{os.getpid()}.jpg")
DummyPath(r) ==
    join(AW_TEMP, <<"proxy", "_", "dummy", "_">> \o getpid(r) \o <<".", "jpg">>)

\* source_path of the workflow copy (line 361)
CopySource(r) ==
    IF config.WORKFLOW_STORE_SOURCE = "preview"
    THEN preview_proxy_path[r] ELSE workflow_proxy_path[r]

\* ext of the workflow copy (lines 362-363)
CopyExt ==
    IF config.WORKFLOW_STORE_SOURCE = "preview"
    THEN get_container(config.PREVIEW_CODEC, config.PREVIEW_CONTAINER)
    ELSE get_container(config.WORKFLOW_CODEC, config.WORKFLOW_CONTAINER)

\* the return path with the two tiers swapped
PreviewReturnPath_swapped(r) ==
    IF config.P5_PREVIEW_SOURCE = "preview"
    THEN workflow_proxy_path[r] ELSE preview_proxy_path[r]

\* return_path when the P5 preview is enabled (line 371)
PreviewReturnPath(r) ==
    IF config.P5_PREVIEW_SOURCE = "preview"
    THEN preview_proxy_path[r] ELSE workflow_proxy_path[r]

\* os.path.isfile
isfile(path) == path \in fs

\* what the external transcoder can do with one job: exit 0 or non-zero,
\* with or without a file left at the output path, and with captured
\* output that is decodable text or not
TranscodeOutcomes ==
    {"ok", "ok_nowrite", "fail", "fail_partial",
     "ok_undecodable", "ok_nowrite_undecodable",
     "fail_undecodable", "fail_partial_undecodable"}

\* result.returncode == 0
ReturnsZero(outcome) ==
    outcome \in {"ok", "ok_nowrite", "ok_undecodable", "ok_nowrite_undecodable"}

\* the transcoder left a file at its output path
WritesOutput(outcome) ==
    outcome \in {"ok", "fail_partial", "ok_undecodable", "fail_partial_undecodable"}

\* the transcoder's captured stdout and stderr decode as text
Decodable(outcome) ==
    outcome \in {"ok", "ok_nowrite", "fail", "fail_partial"}

\* os.makedirs(dir, exist_ok=True) raises: dir is the empty string, or dir
\* or one of the directories above it is a regular file
makedirs_raises(dir) ==
    \/ dir = EmptyStr
    \/ \E f \in fs : dir = f \/ StartsWith(dir, f \o <<"/">>)

-----------------------------------------------------------------------------
(* main(): the steps.  Every step is one blocking call of main() with the  *)
(* straight-line code before it; r is the process that runs main().        *)

\* aw.error_exit: log and sys.exit(1); an uncaught exception ends the
\* process with the same status
error_exit(r) ==
    /\ pc' = [pc EXCEPT ![r] = "exited"]
    /\ exit_code' = [exit_code EXCEPT ![r] = <<1>>]

\* lines 317-337: validate the input and set up the locals
Start(r) ==
    /\ pc[r] = "start"
    /\ IF Len(argv[r]) < 2
       THEN /\ error_exit(r)
            /\ UNCHANGED input_file
       ELSE /\ input_file' = [input_file EXCEPT ![r] = argv[r][2]]
            /\ IF ~isfile(argv[r][2])
               THEN error_exit(r)
               ELSE /\ pc' = [pc EXCEPT ![r] = "gen_preview"]
                    /\ UNCHANGED exit_code
    /\ UNCHANGED <<config, env, child, fs, argv, preview_proxy_path, workflow_proxy_path,
                   workflow_dest, return_path, calls, copies, created,
                   removed, stdout>>

\* subprocess.run cannot start the transcoder: FFMPEG_PATH is empty, so
\* FFMPEG is AW_BIN/ffmpeg (init_ffmpeg), and when that cannot be executed
\* (no such file, no permission, no executable format) Popen raises OSError
cannot_start == ~env.ffmpeg_startable

\* subprocess.run raises: the transcoder cannot be started, or, with
\* text=True, its captured output does not decode (UnicodeDecodeError once
\* the transcoder has ended)
subprocess_run_raises(outcome, text) ==
    cannot_start \/ (text /\ ~Decodable(outcome))

\* generate_proxy up to the wait inside subprocess.run (lines 261-301): the
\* transcoder is started and, depending on how it is going to end, writes
\* output_file; the process then waits for it at `wait`.  output_file lies
\* in AW_TEMP, an existing directory, so the os.makedirs of line 261 has
\* nothing to do.  When the transcoder cannot be started the call raises,
\* nothing catches it, and the process ends with status 1.
start_transcoder(r, tier, output_file, wait) ==
    IF cannot_start
    THEN /\ calls' = [calls EXCEPT ![r] =
                          Append(@, [tier |-> tier, output |-> output_file,
                                     ok |-> FALSE, raised |-> TRUE])]
         /\ error_exit(r)
         /\ UNCHANGED <<fs, created, child>>
    ELSE /\ \E outcome \in TranscodeOutcomes :
               /\ child' = [child EXCEPT ![r] = outcome]
               /\ IF WritesOutput(outcome)
                  THEN /\ fs' = fs \cup {output_file}
                       /\ created' = [created EXCEPT ![r] = @ \cup {output_file}]
                  ELSE UNCHANGED <<fs, created>>
         /\ pc' = [pc EXCEPT ![r] = wait]
         /\ UNCHANGED <<calls, exit_code>>

\* generate_proxy whose caller does not look at the result
generate_proxy_unchecked(r, tier, output_file, outcome, next) ==
    /\ calls' = [calls EXCEPT ![r] =
                     Append(@, [tier   |-> tier, output |-> output_file,
                                ok     |-> ~subprocess_run_raises(outcome, TRUE)
                                           /\ ReturnsZero(outcome),
                                raised |-> subprocess_run_raises(outcome, TRUE)])]
    /\ IF subprocess_run_raises(outcome, TRUE)
       THEN error_exit(r)
       ELSE /\ pc' = [pc EXCEPT ![r] = next]
            /\ UNCHANGED exit_code

\* generate_proxy from the end of the wait on (lines 301-310) with the
\* transcoder ended as `outcome`, and the caller's test of the result;
\* `next` is where main continues on success.  subprocess.run(text=True)
\* raises when the captured output does not decode: nothing catches it and
\* the process ends with status 1, whatever the transcoder's exit status.
\* Otherwise the call returns True on exit status 0 and False on any other,
\* and on False the caller exits through aw.error_exit.
generate_proxy(r, tier, output_file, outcome, next) ==
    /\ calls' = [calls EXCEPT ![r] =
                     Append(@, [tier   |-> tier, output |-> output_file,
                                ok     |-> ~subprocess_run_raises(outcome, TRUE)
                                           /\ ReturnsZero(outcome),
                                raised |-> subprocess_run_raises(outcome, TRUE)])]
    /\ IF subprocess_run_raises(outcome, TRUE) \/ ~ReturnsZero(outcome)
       THEN error_exit(r)
       ELSE /\ pc' = [pc EXCEPT ![r] = next]
            /\ UNCHANGED exit_code

\* lines 339-346 up to the wait for the preview transcoder
GenPreview(r) ==
    /\ pc[r] = "gen_preview"
    /\ IF need_preview
       THEN /\ preview_proxy_path' =
                   [preview_proxy_path EXCEPT ![r] = PreviewTempPath(input_file[r])]
            /\ start_transcoder(r, "preview", PreviewTempPath(input_file[r]),
                                "wait_preview")
       ELSE /\ pc' = [pc EXCEPT ![r] = "gen_workflow"]
            /\ UNCHANGED <<preview_proxy_path, child, calls, fs, created,
                           exit_code>>
    /\ UNCHANGED <<config, env, argv, input_file, workflow_proxy_path,
                   workflow_dest, return_path, copies, removed, stdout>>

\* lines 343-347: the preview transcoder has ended
WaitPreview(r) ==
    /\ pc[r] = "wait_preview"
    /\ generate_proxy(r, "preview", preview_proxy_path[r], child[r], "gen_workflow")
    /\ child' = [child EXCEPT ![r] = "none"]
    /\ UNCHANGED <<config, env, fs, argv, input_file, preview_proxy_path,
                   workflow_proxy_path, workflow_dest, return_path, copies,
                   created, removed, stdout>>

\* lines 349-356 up to the wait for the workflow transcoder
GenWorkflow(r) ==
    /\ pc[r] = "gen_workflow"
    /\ IF need_workflow
       THEN /\ workflow_proxy_path' =
                   [workflow_proxy_path EXCEPT ![r] = WorkflowTempPath(input_file[r])]
            /\ start_transcoder(r, "workflow", WorkflowTempPath(input_file[r]),
                                "wait_workflow")
       ELSE /\ pc' = [pc EXCEPT ![r] = "copy"]
            /\ UNCHANGED <<workflow_proxy_path, child, calls, fs, created,
                           exit_code>>
    /\ UNCHANGED <<config, env, argv, input_file, preview_proxy_path,
                   workflow_dest, return_path, copies, removed, stdout>>

\* lines 353-357: the workflow transcoder has ended
WaitWorkflow(r) ==
    /\ pc[r] = "wait_workflow"
    /\ generate_proxy(r, "workflow", workflow_proxy_path[r], child[r], "copy")
    /\ child' = [child EXCEPT ![r] = "none"]
    /\ UNCHANGED <<config, env, fs, argv, input_file, preview_proxy_path,
                   workflow_proxy_path, workflow_dest, return_path, copies,
                   created, removed, stdout>>

\* lines 359-366, up to the end of shutil.copyfile inside shutil.copy2:
\* compute the destination, create its directory, open the source and write
\* the destination.  os.makedirs raises on a destination without directory
\* part, copyfile raises when the source is no file or is the destination
\* itself; nothing catches either, and the process ends with status 1.
Copy(r) ==
    /\ pc[r] = "copy"
    /\ IF config.ENABLE_WORKFLOW_STORE
       THEN LET source_path == CopySource(r)
                dest        == build_workflow_path(input_file[r], CopyExt)
            IN  /\ workflow_dest' = [workflow_dest EXCEPT ![r] = dest]
                /\ IF makedirs_raises(dirname(dest))
                   THEN /\ error_exit(r)
                        /\ UNCHANGED fs
                   ELSE IF ~isfile(source_path) \/ source_path = dest
                   THEN /\ error_exit(r)
                        /\ UNCHANGED fs
                   ELSE /\ fs' = fs \cup {dest}
                        /\ pc' = [pc EXCEPT ![r] = "copystat"]
                        /\ UNCHANGED exit_code
       ELSE /\ pc' = [pc EXCEPT ![r] = "select"]
            /\ UNCHANGED <<workflow_dest, fs, exit_code>>
    /\ UNCHANGED <<config, env, child, argv, input_file, preview_proxy_path,
                   workflow_proxy_path, return_path, calls, copies, created,
                   removed, stdout>>

\* lines 366-367, the rest of shutil.copy2: copystat reads the metadata of
\* the source and sets it on the destination; it raises when either file is
\* gone by then, and the destination copyfile wrote stays where it is
CopyStat(r) ==
    /\ pc[r] = "copystat"
    /\ IF isfile(CopySource(r)) /\ isfile(workflow_dest[r])
       THEN /\ copies' = [copies EXCEPT ![r] =
                            Append(@, [src |-> CopySource(r),
                                       dst |-> workflow_dest[r]])]
            /\ pc' = [pc EXCEPT ![r] = "select"]
            /\ UNCHANGED exit_code
       ELSE /\ error_exit(r)
            /\ UNCHANGED copies
    /\ UNCHANGED <<config, env, child, fs, argv, input_file, preview_proxy_path,
                   workflow_proxy_path, workflow_dest, return_path, calls,
                   created, removed, stdout>>

\* the dummy-image job does not capture text: how it can end, as far as
\* main can tell
DummyOutcomes == {o \in TranscodeOutcomes : Decodable(o)}

\* lines 369-375 up to the wait inside subprocess.run: determine the file
\* to return; with the P5 preview disabled the transcoder is started for a
\* dummy image, which it writes or not.  A transcoder that cannot be
\* started makes line 375 raise, and the process ends with status 1.
Select(r) ==
    /\ pc[r] = "select"
    /\ IF config.ENABLE_P5_PREVIEW
       THEN /\ return_path' = [return_path EXCEPT ![r] = PreviewReturnPath(r)]
            /\ pc' = [pc EXCEPT ![r] = "verify"]
            /\ UNCHANGED <<fs, created, child, exit_code>>
       ELSE /\ return_path' = [return_path EXCEPT ![r] = DummyPath(r)]
            /\ IF cannot_start
               THEN /\ error_exit(r)
                    /\ UNCHANGED <<fs, created, child>>
               ELSE /\ \E outcome \in DummyOutcomes :
                          /\ child' = [child EXCEPT ![r] = outcome]
                          /\ IF WritesOutput(outcome)
                             THEN /\ fs' = fs \cup {DummyPath(r)}
                                  /\ created' = [created EXCEPT ![r] =
                                                    @ \cup {DummyPath(r)}]
                             ELSE UNCHANGED <<fs, created>>
                    /\ pc' = [pc EXCEPT ![r] = "wait_dummy"]
                    /\ UNCHANGED exit_code
    /\ UNCHANGED <<config, env, argv, input_file, preview_proxy_path,
                   workflow_proxy_path, workflow_dest, calls, copies, removed,
                   stdout>>

\* lines 375-378: the dummy-image transcoder has ended; its exit status is
\* not looked at and its output is captured as bytes
WaitDummy(r) ==
    /\ pc[r] = "wait_dummy"
    /\ IF subprocess_run_raises(child[r], FALSE)
       THEN error_exit(r)
       ELSE /\ pc' = [pc EXCEPT ![r] = "verify"]
            /\ UNCHANGED exit_code
    /\ child' = [child EXCEPT ![r] = "none"]
    /\ UNCHANGED <<config, env, fs, argv, input_file, preview_proxy_path,
                   workflow_proxy_path, workflow_dest, return_path, calls,
                   copies, created, removed, stdout>>

\* lines 380-382: verify that the return file exists
Verify(r) ==
    /\ pc[r] = "verify"
    /\ IF return_path[r] = EmptyStr \/ ~isfile(return_path[r])
       THEN error_exit(r)
       ELSE /\ pc' = [pc EXCEPT ![r] = "cleanup_preview"]
            /\ UNCHANGED exit_code
    /\ UNCHANGED <<config, env, child, fs, argv, input_file, preview_proxy_path,
                   workflow_proxy_path, workflow_dest, return_path, calls,
                   copies, created, removed, stdout>>

\* the test of one iteration of the cleanup loop (line 386)
CleanupTest(r, path) ==
    path # EmptyStr /\ isfile(path) /\ path # return_path[r]

\* os.remove(path) (line 387) and the continuation at `next`; the call
\* raises FileNotFoundError when the file is gone since the test, nothing
\* catches it, and the process ends with status 1
os_remove(r, path, next) ==
    IF isfile(path)
    THEN /\ fs' = fs \ {path}
         /\ removed' = [removed EXCEPT ![r] = @ \cup {path}]
         /\ pc' = [pc EXCEPT ![r] = next]
         /\ UNCHANGED exit_code
    ELSE /\ error_exit(r)
         /\ UNCHANGED <<fs, removed>>

\* the cleanup loop's first iteration, its test: path = preview_proxy_path
CleanupPreview(r) ==
    /\ pc[r] = "cleanup_preview"
    /\ pc' = [pc EXCEPT ![r] = IF CleanupTest(r, preview_proxy_path[r])
                               THEN "remove_preview" ELSE "cleanup_workflow"]
    /\ UNCHANGED <<config, env, child, fs, argv, input_file, preview_proxy_path,
                   workflow_proxy_path, workflow_dest, return_path, calls,
                   copies, created, removed, stdout, exit_code>>

\* the cleanup loop's first iteration, its os.remove
RemovePreview(r) ==
    /\ pc[r] = "remove_preview"
    /\ os_remove(r, preview_proxy_path[r], "cleanup_workflow")
    /\ UNCHANGED <<config, env, child, argv, input_file, preview_proxy_path,
                   workflow_proxy_path, workflow_dest, return_path, calls,
                   copies, created, stdout>>

\* the cleanup loop's second iteration, its test: path = workflow_proxy_path
CleanupWorkflow(r) ==
    /\ pc[r] = "cleanup_workflow"
    /\ pc' = [pc EXCEPT ![r] = IF CleanupTest(r, workflow_proxy_path[r])
                               THEN "remove_workflow" ELSE "print"]
    /\ UNCHANGED <<config, env, child, fs, argv, input_file, preview_proxy_path,
                   workflow_proxy_path, workflow_dest, return_path, calls,
                   copies, created, removed, stdout, exit_code>>

\* the cleanup loop's second iteration, its os.remove
RemoveWorkflow(r) ==
    /\ pc[r] = "remove_workflow"
    /\ os_remove(r, workflow_proxy_path[r], "print")
    /\ UNCHANGED <<config, env, child, argv, input_file, preview_proxy_path,
                   workflow_proxy_path, workflow_dest, return_path, calls,
                   copies, created, stdout>>

\* lines 389-393: print(return_path) and fall off the end of main()
PrintResult(r) ==
    /\ pc[r] = "print"
    /\ stdout' = [stdout EXCEPT ![r] = Append(@, return_path[r])]
    /\ pc' = [pc EXCEPT ![r] = "exited"]
    /\ exit_code' = [exit_code EXCEPT ![r] = <<0>>]
    /\ UNCHANGED <<config, env, child, fs, argv, input_file, preview_proxy_path,
                   workflow_proxy_path, workflow_dest, return_path, calls,
                   copies, created, removed>>

Next ==
    \E r \in Runs :
        \/ Start(r)
        \/ GenPreview(r)
        \/ WaitPreview(r)
        \/ GenWorkflow(r)
        \/ WaitWorkflow(r)
        \/ Copy(r)
        \/ CopyStat(r)
        \/ Select(r)
        \/ WaitDummy(r)
        \/ Verify(r)
        \/ CleanupPreview(r)
        \/ RemovePreview(r)
        \/ CleanupWorkflow(r)
        \/ RemoveWorkflow(r)
        \/ PrintResult(r)

-----------------------------------------------------------------------------
(* The inputs: source files, configurations, command lines.                *)

\* /Volumes/RAW/Projects/2024/BMW/Footage/A-Cam/A001.mov
SrcScenario ==
    <<"/", "Volumes", "/", "RAW", "/", "Projects", "/", "2024", "/", "BMW",
      "/", "Footage", "/", "A-Cam", "/", "A001", ".", "mov">>

\* /R/Projects/A001.mov: the marker is the last segment of the directory
SrcMarkerLast == <<"/", "R", "/", "Projects", "/", "A001", ".", "mov">>

\* /R/clips/A001.mp4: no marker, extension equal to the h264 container
SrcNoMarker == <<"/", "R", "/", "clips", "/", "A001", ".", "mp4">>

\* /R/Projects/x/proxies/B002.mp4: a source that lies in a "proxies" folder
SrcInProxies ==
    <<"/", "R", "/", "Projects", "/", "x", "/", "proxies", "/", "B002", ".", "mp4">>

\* /B002.mov: a source in the root directory
SrcRoot == <<"/", "B002", ".", "mov">>

\* Projects/x/A001.mov: relative, the marker is the leading segment
SrcRelMarker == <<"Projects", "/", "x", "/", "A001", ".", "mov">>

\* A001.mp4: relative, no directory
SrcRelBare == <<"A001", ".", "mp4">>

\* /R/Projects//x/A001.mov: an empty segment after the marker
SrcDouble ==
    <<"/", "R", "/", "Projects", "/", "/", "x", "/", "A001", ".", "mov">>

\* /R\Projects\x/A001.mov: backslashes inside one POSIX segment
SrcBackslash ==
    <<"/", "R", "\\", "Projects", "\\", "x", "/", "A001", ".", "mov">>

\* /R/clips/missing.mov: not on disk
SrcMissing == <<"/", "R", "/", "clips", "/", "missing", ".", "mov">>

\* the source files that exist when the runs start
FilesOnDisk ==
    {SrcScenario, SrcMarkerLast, SrcNoMarker, SrcInProxies, SrcRoot,
     SrcRelMarker, SrcRelBare, SrcDouble, SrcBackslash}

\* sys.argv[0]
Script == <<"p5", "_", "proxy", "_", "generator", ".", "py">>

Projects == <<"Projects">>
VolumesProxies == <<"/", "Volumes", "/", "Proxies">>
proxies == <<"proxies">>

\* the four output-selection settings (lines 45-50)
OutputSpecs ==
    [ENABLE_P5_PREVIEW : BOOLEAN, P5_PREVIEW_SOURCE : {"preview", "workflow"},
     ENABLE_WORKFLOW_STORE : BOOLEAN, WORKFLOW_STORE_SOURCE : {"preview", "workflow"}]

\* the path mapping settings (lines 84-87)
PathMappingRules(markers, bases, appends) ==
    [WORKFLOW_PROJECT_FOLDER : markers, WORKFLOW_NEW_BASE : bases,
     WORKFLOW_REMOVE_LEVELS : 0..MaxRemoveLevels, WORKFLOW_REPLACE_WITH : appends]

\* the codec and container settings (lines 95-97, 113-115)
CodecSettings(workflow_codecs, workflow_containers) ==
    [PREVIEW_CODEC : {"h264"}, PREVIEW_CONTAINER : {EmptyStr},
     WORKFLOW_CODEC : workflow_codecs, WORKFLOW_CONTAINER : workflow_containers]

\* the configuration made of the three groups of settings
MakeConfig(o, m, c) ==
    [ENABLE_P5_PREVIEW       |-> o.ENABLE_P5_PREVIEW,
     P5_PREVIEW_SOURCE       |-> o.P5_PREVIEW_SOURCE,
     ENABLE_WORKFLOW_STORE   |-> o.ENABLE_WORKFLOW_STORE,
     WORKFLOW_STORE_SOURCE   |-> o.WORKFLOW_STORE_SOURCE,
     WORKFLOW_PROJECT_FOLDER |-> m.WORKFLOW_PROJECT_FOLDER,
     WORKFLOW_NEW_BASE       |-> m.WORKFLOW_NEW_BASE,
     WORKFLOW_REMOVE_LEVELS  |-> m.WORKFLOW_REMOVE_LEVELS,
     WORKFLOW_REPLACE_WITH   |-> m.WORKFLOW_REPLACE_WITH,
     PREVIEW_CODEC           |-> c.PREVIEW_CODEC,
     PREVIEW_CONTAINER       |-> c.PREVIEW_CONTAINER,
     WORKFLOW_CODEC          |-> c.WORKFLOW_CODEC,
     WORKFLOW_CONTAINER      |-> c.WORKFLOW_CONTAINER]

\* the environments aw_platform.py is imported in: the default installation
\* with its temp directory, an installation without one, an installation
\* P5 names in AWPST_SRV_HOME (in Tcl braces, with a trailing slash) with
\* and without its temp directory, each with and without a transcoder in
\* AW_BIN that can be started
Tmp == <<"/", "tmp">>
SrvHome == <<"{", "/", "opt", "/", "aw", "/", "}">>
Environments ==
    {[AWPST_SRV_HOME |-> h, temp_isdir |-> d, gettempdir |-> Tmp,
      ffmpeg_startable |-> x] :
        h \in {EmptyStr, SrvHome}, d \in BOOLEAN, x \in BOOLEAN}

\* the tier artifacts an earlier run on the same command line can have left
\* in the temp area (main() exits at lines 347, 357 and 382 without
\* cleaning up)
Leftovers(active) ==
    UNION {{PreviewTempPath(argv[r][2]), WorkflowTempPath(argv[r][2])} :
              r \in {a \in active : Len(argv[a]) >= 2}}

\* the state of the processes in `active` before main() starts in one of
\* `environments`; the others are never started.  Of the files on disk
\* only those the command lines name are tracked, and, with `stale`, any
\* of the tier artifacts earlier runs left behind.
InitRuns(active, environments, stale) ==
    /\ env \in environments
    /\ \E old \in SUBSET (IF stale THEN Leftovers(active) ELSE {}) :
           fs = {f \in FilesOnDisk :
                    \E r \in active : Len(argv[r]) >= 2 /\ argv[r][2] = f}
                \cup old
    /\ pc = [r \in Runs |-> IF r \in active THEN "start" ELSE "off"]
    /\ input_file = [r \in Runs |-> EmptyStr]
    /\ preview_proxy_path = [r \in Runs |-> EmptyStr]
    /\ workflow_proxy_path = [r \in Runs |-> EmptyStr]
    /\ workflow_dest = [r \in Runs |-> EmptyStr]
    /\ return_path = [r \in Runs |-> EmptyStr]
    /\ child = [r \in Runs |-> "none"]
    /\ calls = [r \in Runs |-> << >>]
    /\ copies = [r \in Runs |-> << >>]
    /\ created = [r \in Runs |-> {}]
    /\ removed = [r \in Runs |-> {}]
    /\ stdout = [r \in Runs |-> << >>]
    /\ exit_code = [r \in Runs |-> << >>]

\* One run of main(), every combination of the output settings, on an
\* existing source, a missing one, or no argument at all.
Init ==
    /\ config \in {MakeConfig(o, m, c) :
                      o \in OutputSpecs,
                      m \in PathMappingRules({EmptyStr, Projects}, {VolumesProxies},
                                             {EmptyStr, proxies}),
                      c \in CodecSettings({"h264", "prores"}, {EmptyStr})}
    /\ \E a \in {<<Script>>, <<Script, SrcScenario>>, <<Script, SrcInProxies>>,
                 <<Script, SrcNoMarker>>, <<Script, SrcMissing>>} :
           argv = [r \in Runs |-> IF r = 1 THEN a ELSE <<Script>>]
    /\ InitRuns({1}, Environments, TRUE)

Spec == Init /\ [][Next]_vars

\* One run of main() with the workflow store enabled, over the path mapping
\* rules, the containers and the shapes of source path.
InitPath ==
    /\ config \in {MakeConfig(o, m, c) :
                      o \in {s \in OutputSpecs :
                               /\ s.ENABLE_WORKFLOW_STORE
                               /\ (s.ENABLE_P5_PREVIEW \/ s.P5_PREVIEW_SOURCE = "preview")},
                      m \in PathMappingRules({EmptyStr, Projects},
                                             {EmptyStr, VolumesProxies},
                                             {EmptyStr, proxies, <<"x">>}),
                      c \in CodecSettings({"h264", "prores"}, {EmptyStr, <<"mp4">>})}
    /\ \E f \in FilesOnDisk :
           argv = [r \in Runs |-> IF r = 1 THEN <<Script, f>> ELSE <<Script>>]
    /\ InitRuns({1}, {e \in Environments : e.temp_isdir /\ e.ffmpeg_startable}, FALSE)

SpecPath == InitPath /\ [][Next]_vars

\* Two runs of main() at the same time, under the repository's default path
\* mapping, on two different source files.
InitConc ==
    /\ config \in {MakeConfig(o, m, c) :
                      o \in OutputSpecs,
                      m \in {r \in PathMappingRules({EmptyStr}, {EmptyStr}, {proxies}) :
                               r.WORKFLOW_REMOVE_LEVELS = 1},
                      c \in CodecSettings({"h264"}, {EmptyStr})}
    /\ \E f \in {SrcMarkerLast, SrcInProxies} :
           argv = [r \in Runs |-> IF r = 1 THEN <<Script, SrcNoMarker>>
                                           ELSE <<Script, f>>]
    /\ InitRuns(Runs, {e \in Environments : e.AWPST_SRV_HOME = EmptyStr}, TRUE)

SpecConc == InitConc /\ [][Next]_vars

-----------------------------------------------------------------------------
(* Vocabulary of the properties.                                           *)

\* run r has ended and its argument named a source file that exists
RanOnExistingInput(r) ==
    pc[r] = "exited" /\ Len(argv[r]) >= 2 /\ argv[r][2] \in FilesOnDisk

\* run r has ended with exit code 0
Succeeded(r) == pc[r] = "exited" /\ exit_code[r] = <<0>>

\* both OutputSpecs name the same quality tier
SameTier == config.P5_PREVIEW_SOURCE = config.WORKFLOW_STORE_SOURCE

BothEnabled == config.ENABLE_P5_PREVIEW /\ config.ENABLE_WORKFLOW_STORE

AnyEnabled == config.ENABLE_P5_PREVIEW \/ config.ENABLE_WORKFLOW_STORE

\* the outputs of run r's successful transcodes of `tier`
TierArtifacts(r, tier) ==
    {calls[r][i].output : i \in {j \in 1..Len(calls[r]) :
                                    calls[r][j].tier = tier /\ calls[r][j].ok}}

\* the container of a tier, as the spec resolves it: the override wins,
\* else h264 -> mp4, prores -> mov, dnxhd -> mxf
TierContainer(tier) ==
    LET codec  == IF tier = "preview" THEN config.PREVIEW_CODEC
                  ELSE config.WORKFLOW_CODEC
        custom == IF tier = "preview" THEN config.PREVIEW_CONTAINER
                  ELSE config.WORKFLOW_CONTAINER
    IN  IF custom # EmptyStr THEN custom
        ELSE CASE codec = "h264"   -> <<"mp4">>
               [] codec = "prores" -> <<"mov">>
               [] codec = "dnxhd"  -> <<"mxf">>
               [] OTHER            -> <<"mp4">>

\* the file name part of a path: what follows its last separator
FileNameOf(p) == SubSeq(p, RFind(p, "/") + 1, Len(p))

\* a placeholder image of the temp area: proxy_dummy_<pid>.jpg
IsPlaceholder(p) ==
    /\ dirname(p) = AW_TEMP
    /\ StartsWith(FileNameOf(p), <<"proxy", "_", "dummy", "_">>)
    /\ EndsWith(FileNameOf(p), <<".", "jpg">>)

-----------------------------------------------------------------------------
(* C1: single-encode optimization.                                         *)

\* C1 as stated: whenever both OutputSpecs reference the same quality tier,
\* a run of main() on an existing input makes exactly one generate_proxy
\* call.  (Stated of the runs that end successfully, where no transcode
\* failure cuts the run short.)
C1_OneEncodeWheneverSameTier ==
    \A r \in Runs :
        Succeeded(r) /\ SameTier => Len(calls[r]) = 1

\* C1 amended: when both OutputSpecs reference the same quality tier and at
\* least one of them is enabled, a run of main() on an existing input makes
\* exactly one generate_proxy call, for that tier, and its output is the
\* source of the workflow copy and the path printed for the preview output;
\* when both are disabled the run makes no generate_proxy call.
C1_SingleEncode ==
    \A r \in Runs :
        RanOnExistingInput(r) /\ SameTier =>
            IF AnyEnabled
            THEN /\ Len(calls[r]) = 1
                 /\ calls[r][1].tier = config.P5_PREVIEW_SOURCE
                 /\ \A i \in 1..Len(copies[r]) : copies[r][i].src = calls[r][1].output
                 /\ (config.ENABLE_WORKFLOW_STORE /\ Succeeded(r) => Len(copies[r]) = 1)
                 /\ (config.ENABLE_P5_PREVIEW /\ Succeeded(r) =>
                        stdout[r] = <<calls[r][1].output>>)
            ELSE calls[r] = << >>

\* a successful run with both outputs enabled on the same tier: one encode,
\* copied and returned
C1_Witness ==
    /\ Succeeded(1) /\ SameTier /\ BothEnabled
    /\ Len(calls[1]) = 1
    /\ Len(copies[1]) = 1
    /\ stdout[1] = <<copies[1][1].src>>

-----------------------------------------------------------------------------
(* C2: two encodes for two tiers.                                          *)

\* C2 as stated: whenever the OutputSpecs reference different quality
\* tiers, a run of main() on an existing input makes exactly two
\* generate_proxy calls, one for the preview tier and one for the workflow
\* tier.  (Stated of the runs that end successfully, where no transcode
\* failure cuts the run short.)
C2_TwoEncodesWheneverDifferentTiers ==
    \A r \in Runs :
        Succeeded(r) /\ ~SameTier =>
            /\ Len(calls[r]) = 2
            /\ {calls[r][1].tier, calls[r][2].tier} = {"preview", "workflow"}

\* C2 amended: when both OutputSpecs are enabled and reference different
\* quality tiers, a run of main() on an existing input transcodes the
\* preview tier first and, if that generate_proxy call returns True, the
\* workflow tier second and nothing else: exactly two generate_proxy calls,
\* one per tier.  If the preview call returns False or raises it is the
\* run's only call.  When only one
\* of the two OutputSpecs is enabled, only its tier is transcoded.
C2_TwoEncodes ==
    \A r \in Runs :
        RanOnExistingInput(r) /\ ~SameTier =>
            IF BothEnabled
            THEN /\ Len(calls[r]) >= 1
                 /\ calls[r][1].tier = "preview"
                 /\ IF calls[r][1].ok
                    THEN Len(calls[r]) = 2 /\ calls[r][2].tier = "workflow"
                    ELSE Len(calls[r]) = 1
            ELSE IF config.ENABLE_P5_PREVIEW
            THEN Len(calls[r]) = 1 /\ calls[r][1].tier = config.P5_PREVIEW_SOURCE
            ELSE IF config.ENABLE_WORKFLOW_STORE
            THEN Len(calls[r]) = 1 /\ calls[r][1].tier = config.WORKFLOW_STORE_SOURCE
            ELSE calls[r] = << >>

\* a successful run with both outputs enabled on different tiers: the
\* preview tier and then the workflow tier were transcoded
C2_Witness ==
    /\ Succeeded(1) /\ ~SameTier /\ BothEnabled
    /\ Len(calls[1]) = 2
    /\ calls[1][1].tier = "preview" /\ calls[1][2].tier = "workflow"
    /\ calls[1][1].ok /\ calls[1][2].ok

-----------------------------------------------------------------------------
(* C3: the return artifact.                                                *)

\* C3: a run that ends successfully has printed exactly one path, its
\* return_path.  With the preview output enabled it is the temp artifact of
\* the tier P5_PREVIEW_SOURCE names; with it disabled it is the placeholder
\* image, and an enabled workflow output has still been copied from the
\* artifact of the tier WORKFLOW_STORE_SOURCE names to the mapped
\* destination.
C3_ReturnArtifact ==
    \A r \in Runs :
        Succeeded(r) =>
            /\ stdout[r] = <<return_path[r]>>
            /\ IF config.ENABLE_P5_PREVIEW
               THEN return_path[r] \in TierArtifacts(r, config.P5_PREVIEW_SOURCE)
               ELSE /\ IsPlaceholder(return_path[r])
                    /\ \A i \in 1..Len(calls[r]) : calls[r][i].output # return_path[r]
            /\ IF config.ENABLE_WORKFLOW_STORE
               THEN /\ Len(copies[r]) = 1
                    /\ copies[r][1].src \in TierArtifacts(r, config.WORKFLOW_STORE_SOURCE)
                    /\ copies[r][1].dst =
                          build_workflow_path(input_file[r],
                                              TierContainer(config.WORKFLOW_STORE_SOURCE))
                    /\ copies[r][1].dst \in fs
               ELSE copies[r] = << >>

\* the spec's scenario: preview disabled, workflow enabled and sourced from
\* the workflow tier; the placeholder is returned and the workflow encode
\* was copied
C3_Witness ==
    /\ Succeeded(1)
    /\ ~config.ENABLE_P5_PREVIEW
    /\ config.ENABLE_WORKFLOW_STORE /\ config.WORKFLOW_STORE_SOURCE = "workflow"
    /\ IsPlaceholder(stdout[1][1])
    /\ Len(copies[1]) = 1 /\ copies[1][1].src = workflow_proxy_path[1]

-----------------------------------------------------------------------------
(* C4: what is left in the temp area after a successful run.               *)

\* C4: after a run that ended with exit code 0, exactly one of the
\* transient artifacts the run created (tier files, placeholder image)
\* exists in the temp area, it is the path printed to standard output, and
\* every other one was deleted by the run.
C4_OneSurvivor ==
    \A r \in Runs :
        Succeeded(r) =>
            /\ created[r] \cap fs = {stdout[r][1]}
            /\ Len(stdout[r]) = 1
            /\ \A p \in created[r] : p # stdout[r][1] => p \in removed[r]
            /\ \A p \in created[r] : dirname(p) = AW_TEMP

-----------------------------------------------------------------------------
(* C5: cleanup on every exit path.                                         *)

\* C5: whenever a run has exited, successfully or not, no tier artifact
\* that one of its transcodes produced successfully is left in the temp
\* area, except the designated return artifact.
C5_NoLeftoverOnAnyExit ==
    \A r \in Runs :
        pc[r] = "exited" =>
            \A tier \in {"preview", "workflow"} :
                (TierArtifacts(r, tier) \cap fs) \subseteq {return_path[r]}

-----------------------------------------------------------------------------
(* C6: a transcode failure aborts the run at once.                         *)

\* C6: once a generate_proxy call of a run has failed (the transcoder
\* exited non-zero and the call returned False, or the call raised), the
\* run has exited with code 1, that call is its last transcode, and it has made no copy to
\* the workflow destination, deleted nothing and printed nothing.
C6_AbortOnTranscodeFailure ==
    \A r \in Runs :
        \A i \in 1..Len(calls[r]) :
            ~calls[r][i].ok =>
                /\ i = Len(calls[r])
                /\ pc[r] = "exited"
                /\ exit_code[r] = <<1>>
                /\ copies[r] = << >>
                /\ removed[r] = {}
                /\ stdout[r] = << >>

\* the preview tier was transcoded, then the workflow transcoder exited
\* non-zero and generate_proxy returned False
C6_Witness ==
    /\ Len(calls[1]) = 2
    /\ calls[1][1].ok /\ ~calls[1][2].ok /\ ~calls[1][2].raised
    /\ exit_code[1] = <<1>>

-----------------------------------------------------------------------------
(* C7: concurrent runs on different source files.                          *)

\* the temp-area paths run r has written, deleted or returned
TempPathsUsed(r) ==
    created[r] \cup removed[r] \cup {stdout[r][i] : i \in 1..Len(stdout[r])}

\* C7: two runs of main() that execute at the same time on different source
\* files use disjoint paths of the temp area: neither writes, deletes or
\* returns a path the other has written, deleted or returned.
C7_DisjointTempPaths ==
    \A r1, r2 \in Runs :
        /\ r1 # r2
        /\ input_file[r1] # EmptyStr /\ input_file[r2] # EmptyStr
        /\ input_file[r1] # input_file[r2]
        => TempPathsUsed(r1) \cap TempPathsUsed(r2) = {}

-----------------------------------------------------------------------------
(* C8: the _proxy suffix.                                                  *)

\* C8: the file name of the destination build_workflow_path returns is
\* <stem>_proxy.<container> if the destination's directory equals, after
\* normalization, the directory of the source file, and <stem>.<container>
\* in every other case.
C8_ProxySuffixIffSameDir ==
    \A r \in Runs :
        workflow_dest[r] # EmptyStr =>
            LET dest == workflow_dest[r]
                stem == PathStem(input_file[r])
                ext  == TierContainer(config.WORKFLOW_STORE_SOURCE)
                same == normpath(dirname(dest)) = normpath(dirname(input_file[r]))
            IN  FileNameOf(dest) =
                    IF same THEN stem \o <<"_", "proxy", ".">> \o ext
                    ELSE stem \o <<".">> \o ext

\* the spec's edge case: no substitution, zero removeLevels, empty
\* appendFolder; the destination is in the source's directory and carries
\* the suffix
C8_Witness ==
    /\ workflow_dest[1] # EmptyStr
    /\ config.WORKFLOW_PROJECT_FOLDER = EmptyStr
    /\ config.WORKFLOW_REMOVE_LEVELS = 0
    /\ config.WORKFLOW_REPLACE_WITH = EmptyStr
    /\ dirname(workflow_dest[1]) = dirname(input_file[1])
    /\ EndsWith(PathStem(workflow_dest[1]), <<"_", "proxy">>)

-----------------------------------------------------------------------------
(* C9: substitution, then trimming, then append.                           *)

\* the non-empty components of a path
Segments(p) == SelectSeq(Split(p), LAMBDA c : c # EmptyStr)

IsAbsolute(p) == StartsWith(p, <<"/">>)

\* the marker is a whole segment of the directory
MarkerIsSegment(dir) ==
    \E k \in 1..Len(Segments(dir)) : Segments(dir)[k] = config.WORKFLOW_PROJECT_FOLDER

\* the destination directory the spec describes, segment by segment:
\* newBase/marker/<segments after the marker>, then removeLevels trailing
\* segments removed (none left to remove at the root), then appendFolder
\* appended
SpecDestinationDir(src_dir) ==
    LET segs    == Segments(src_dir)
        marker  == config.WORKFLOW_PROJECT_FOLDER
        ks      == {k \in 1..Len(segs) : segs[k] = marker}
        k       == CHOOSE i \in ks : \A j \in ks : i <= j
        rebuilt == Segments(config.WORKFLOW_NEW_BASE) \o <<marker>>
                   \o SubSeq(segs, k + 1, Len(segs))
        n       == IF Len(rebuilt) > config.WORKFLOW_REMOVE_LEVELS
                   THEN Len(rebuilt) - config.WORKFLOW_REMOVE_LEVELS ELSE 0
        trimmed == SubSeq(rebuilt, 1, n)
        final   == IF config.WORKFLOW_REPLACE_WITH # EmptyStr
                   THEN Append(trimmed, config.WORKFLOW_REPLACE_WITH)
                   ELSE trimmed
    IN  (IF IsAbsolute(config.WORKFLOW_NEW_BASE) THEN <<"/">> ELSE EmptyStr)
        \o JoinSep(final)

\* the spec's scenario and its destination
\* /Volumes/Proxies/Projects/2024/BMW/Footage/proxies/A001.mp4
IsScenario(r) ==
    /\ input_file[r] = SrcScenario
    /\ config.WORKFLOW_PROJECT_FOLDER = Projects
    /\ config.WORKFLOW_NEW_BASE = VolumesProxies
    /\ config.WORKFLOW_REMOVE_LEVELS = 1
    /\ config.WORKFLOW_REPLACE_WITH = proxies
    /\ TierContainer(config.WORKFLOW_STORE_SOURCE) = <<"mp4">>

ScenarioDestination ==
    <<"/", "Volumes", "/", "Proxies", "/", "Projects", "/", "2024", "/", "BMW",
      "/", "Footage", "/", "proxies", "/", "A001", ".", "mp4">>

\* what C9 says of a destination: its directory is the one the spec
\* describes, its extension is the container, and the scenario maps to the
\* scenario's destination
FollowsSpecOrder(r) ==
    /\ normpath(dirname(workflow_dest[r])) =
           normpath(SpecDestinationDir(dirname(input_file[r])))
    /\ EndsWith(workflow_dest[r],
                <<".">> \o TierContainer(config.WORKFLOW_STORE_SOURCE))
    /\ (IsScenario(r) => workflow_dest[r] = ScenarioDestination)

\* C9, for source files named by an absolute path: whenever markerFolder
\* and newBase are both set and the marker is a whole segment of the source
\* directory, the destination directory is newBase/markerFolder/<segments
\* after the marker> with removeLevels trailing segments removed and
\* appendFolder appended, the extension is the container, and the scenario
\* maps to /Volumes/Proxies/Projects/2024/BMW/Footage/proxies/A001.mp4.
C9_OrderWheneverMarkerIsSegment ==
    \A r \in Runs :
        /\ workflow_dest[r] # EmptyStr
        /\ IsAbsolute(input_file[r])
        /\ config.WORKFLOW_PROJECT_FOLDER # EmptyStr
        /\ config.WORKFLOW_NEW_BASE # EmptyStr
        /\ MarkerIsSegment(dirname(input_file[r]))
        => FollowsSpecOrder(r)

-----------------------------------------------------------------------------
(* C10: the destination is never the source file.                          *)

\* C10: the destination build_workflow_path returns is a path other than
\* the source file's, also after normalization, so the workflow copy is
\* never written over the source file.
C10_DestinationIsNotSource ==
    \A r \in Runs :
        /\ workflow_dest[r] # EmptyStr =>
               /\ workflow_dest[r] # input_file[r]
               /\ normpath(workflow_dest[r]) # normpath(input_file[r])
        /\ \A i \in 1..Len(copies[r]) : copies[r][i].dst # input_file[r]

\* a copy into the source's own directory with the container equal to the
\* source file's extension
C10_Witness ==
    /\ Len(copies[1]) = 1
    /\ dirname(copies[1][1].dst) = dirname(input_file[1])
    /\ EndsWith(input_file[1], <<".", "mp4">>)
    /\ EndsWith(copies[1][1].dst, <<".", "mp4">>)

-----------------------------------------------------------------------------
(* C11: an enabled output always finds its tier's artifact.                *)

\* the tiers the run transcodes
NeededTiers ==
    (IF need_preview THEN {"preview"} ELSE {})
    \cup (IF need_workflow THEN {"workflow"} ELSE {})

\* C11: the tier an enabled output's qualitySource names is one of the
\* needed tiers; when a run stands at the workflow copy with the workflow
\* output enabled, the path the copy reads is non-empty and is the output of
\* a successful transcode of that tier made earlier in the run, and the same
\* holds of the return path when the run stands at the return selection
\* with the preview output enabled; every copy made and every path returned
\* for an enabled preview output afterwards is such an artifact.
C11_EnabledOutputHasArtifact ==
    \A r \in Runs :
        /\ pc[r] \notin {"off", "start"} =>
              /\ (config.ENABLE_WORKFLOW_STORE =>
                     config.WORKFLOW_STORE_SOURCE \in NeededTiers)
              /\ (config.ENABLE_P5_PREVIEW =>
                     config.P5_PREVIEW_SOURCE \in NeededTiers)
        /\ pc[r] \in {"copy", "copystat"} /\ config.ENABLE_WORKFLOW_STORE =>
              /\ CopySource(r) # EmptyStr
              /\ CopySource(r) \in TierArtifacts(r, config.WORKFLOW_STORE_SOURCE)
        /\ pc[r] = "select" /\ config.ENABLE_P5_PREVIEW =>
              /\ PreviewReturnPath(r) # EmptyStr
              /\ PreviewReturnPath(r) \in TierArtifacts(r, config.P5_PREVIEW_SOURCE)
        /\ \A i \in 1..Len(copies[r]) :
              copies[r][i].src \in TierArtifacts(r, config.WORKFLOW_STORE_SOURCE)
        /\ pc[r] \in {"verify", "cleanup_preview", "remove_preview",
                    "cleanup_workflow", "remove_workflow", "print"}
           /\ config.ENABLE_P5_PREVIEW =>
              /\ return_path[r] # EmptyStr
              /\ return_path[r] \in TierArtifacts(r, config.P5_PREVIEW_SOURCE)

\* cross-wired outputs: the run stands at the return selection after the
\* workflow store was copied from the preview tier, and the preview output
\* is about to return the workflow tier
C11_Witness ==
    /\ pc[1] = "select"
    /\ BothEnabled
    /\ config.WORKFLOW_STORE_SOURCE = "preview"
    /\ config.P5_PREVIEW_SOURCE = "workflow"
    /\ Len(copies[1]) = 1 /\ copies[1][1].src = preview_proxy_path[1]
    /\ workflow_proxy_path[1] \in TierArtifacts(1, "workflow")

=============================================================================
